---- MODULE Spec2Model ----
(***************************************************************************)
(* Model of daiso.py: the paginated scrape with a semaphore of 5           *)
(* (fetch_new_arrivals), the RSS rendering (generate_rss), the history     *)
(* loading and saving (load_history, get_exist_titles, save_history) and   *)
(* the top-level command (main).                                           *)
(***************************************************************************)
EXTENDS Integers, Sequences, FiniteSets, TLC

(***************************************************************************)
(* Bounds of the model.                                                    *)
(***************************************************************************)
\* largest page number the pagination of page 1 may announce
MaxLastPage == 7

\* number of runs of the command that are followed
MaxRuns == 3

\* longest product list a run's scrape hands to main
MaxScraped == 2

\* longest legacy feed and longest input list of the function harnesses
MaxItems == 2

\* asyncio.Semaphore(5)
SemPermits == 5

VARIABLES
    \* ---- fetch_new_arrivals ----
    fetchPc,        \* "start" | "gathering" | "returned" | "raised"
    last_page,      \* _get_last_page(soup) of page 1 (0 before page 1 is read)
    all_products,   \* the list being built and returned
    sem,            \* free permits of sem
    task,           \* page -> state of the coroutine _fetch_page(page)
    requests,       \* page -> number of requests.get calls made for it
    errLog,         \* pages for which logger.error was called
    \* ---- main ----
    mainPc,         \* "off" | "start" | "load" | "diff" | "write" | "save" | "done"
    now,            \* NOW of the running process (one value per run)
    jsonFile,       \* the history file  <output>_history.json
    xmlFile,        \* the feed file     <output>
    products,       \* what fetch_new_arrivals returned
    exist_titles,   \* the history dict of the run
    new_products,   \* the products not in the history
    rss_content,    \* what generate_rss returned
    mainOutcome,    \* "none" | "returned" | "propagated"
    logged,         \* logger.exception or logger.error was called by this run
    \* ---- bookkeeping of the run, read by the properties only ----
    raisedAt,       \* the step of the run that raised ("none" when none did)
    loaded,         \* the dict load_history returned
    jsonAtStart,    \* the history file when the run started
    xmlAtStart,     \* the feed file when the run started
    feedWritten,    \* the feed write of this run succeeded
    announced,      \* title -> number of items emitted for it in all feeds
    ioFailed,       \* some read or write of the two files has failed
    \* ---- calls of the pure functions ----
    callIn,         \* the arguments of the call
    callOut         \* <<its result>> (<<>> before the call)

fetchVars == <<fetchPc, last_page, all_products, sem, task, requests, errLog>>

mainVars == <<mainPc, now, jsonFile, xmlFile, products, exist_titles, new_products,
              rss_content, mainOutcome, logged, raisedAt, loaded, jsonAtStart,
              xmlAtStart, feedWritten, announced, ioFailed>>

callVars == <<callIn, callOut>>

vars == <<fetchVars, mainVars, callVars>>

Pages == 1..MaxLastPage
TaskPages == 2..MaxLastPage

(***************************************************************************)
(* The listing pages served by the site.  A page is what BeautifulSoup     *)
(* hands to the parsers: whether the product-list div is there, its        *)
(* product-item divs, and the data-page numbers of the pagination links.   *)
(* An item is "ok" (a title anchor with href), "notitle" (no title anchor) *)
(* or "nohref" (a title anchor without href).                              *)
(***************************************************************************)
HtmlItem(k, t) == [kind |-> k, title |-> t, link |-> t]

GoodItems(p) == [i \in 1..(p % 3) |-> HtmlItem("ok", 10 * p + i)]

\* the page as served when the markup is as expected
GoodPage(p, nav) ==
    [hasList |-> (p % 3 # 0),
     items   |-> IF p % 2 = 0 THEN GoodItems(p) \o <<HtmlItem("notitle", 0)>>
                              ELSE GoodItems(p),
     nav     |-> nav]

\* the page as served with a title anchor that has no href attribute
BrokenPage(p, nav) ==
    [hasList |-> TRUE,
     items   |-> GoodItems(p) \o <<HtmlItem("nohref", 10 * p + 9)>>,
     nav     |-> nav]

SetMax(S) == CHOOSE m \in S : \A x \in S : x <= m

\* _get_last_page: 1 without pagination links, else the largest data-page
_get_last_page(soup) ==
    IF soup.nav = {} THEN 1 ELSE SetMax(soup.nav)

\* the for loop of _parse_products_from_page over items[i..]; the except
\* clause names AttributeError and TypeError, a missing href is a KeyError
RECURSIVE ParseItems(_, _, _)
ParseItems(items, i, acc) ==
    IF i > Len(items) THEN [exc |-> "none", products |-> acc]
    ELSE IF items[i].kind = "notitle" THEN ParseItems(items, i + 1, acc)
    ELSE IF items[i].kind = "nohref" THEN [exc |-> "KeyError", products |-> <<>>]
    ELSE ParseItems(items, i + 1,
                    Append(acc, [title |-> items[i].title, link |-> items[i].link]))

_parse_products_from_page(soup) ==
    IF ~soup.hasList THEN [exc |-> "none", products |-> <<>>]
    ELSE ParseItems(soup.items, 1, <<>>)

\* what requests.get + raise_for_status give for a page
Responses == {"good", "broken", "neterr"}

PageOf(p, resp, nav) == IF resp = "broken" THEN BrokenPage(p, nav) ELSE GoodPage(p, nav)

\* the body of the try block of _fetch_page: the state the task ends in
FetchPageOutcome(p, resp) ==
    IF resp = "neterr" THEN "neterr"
    ELSE IF _parse_products_from_page(PageOf(p, resp, {})).exc # "none" THEN "exc"
    ELSE "good"

\* the value _fetch_page(p) returned, for a task that returned
TaskResult(p, st) ==
    IF st = "neterr" THEN <<>>
    ELSE _parse_products_from_page(PageOf(p, st, {})).products

Finished(st) == st \in {"good", "neterr", "exc", "cancelled"}
Returned(st) == st \in {"good", "neterr"}

\* GatherResults with range(2, last_page) in place of range(2, last_page + 1)
RECURSIVE GatherResultsShort(_, _, _)
GatherResultsShort(tk, p, lp) ==
    IF p >= lp THEN <<>>
    ELSE TaskResult(p, tk[p]) \o GatherResultsShort(tk, p + 1, lp)

\* results = await asyncio.gather(*tasks); for result in results: extend
RECURSIVE GatherResults(_, _, _)
GatherResults(tk, p, lp) ==
    IF p > lp THEN <<>>
    ELSE TaskResult(p, tk[p]) \o GatherResults(tk, p + 1, lp)

InitFetchVars ==
    /\ fetchPc = "start"
    /\ last_page = 0
    /\ all_products = <<>>
    /\ sem = SemPermits
    /\ task = [p \in TaskPages |-> "none"]
    /\ requests = [p \in Pages |-> 0]
    /\ errLog = {}

\* the request of page 1, its parse, and the creation of the page tasks
FetchFirstPage ==
    /\ fetchPc = "start"
    /\ \E resp \in Responses, lp \in 1..MaxLastPage :
        LET nav  == IF lp = 1 THEN {} ELSE {1, lp}
            soup == PageOf(1, resp, nav)
            res  == _parse_products_from_page(soup)
        IN  /\ requests' = [requests EXCEPT ![1] = @ + 1]
            /\ IF resp = "neterr"
               THEN /\ fetchPc' = "raised"
                    /\ UNCHANGED <<last_page, all_products, task>>
               ELSE /\ last_page' = _get_last_page(soup)
                    /\ IF res.exc # "none"
                       THEN /\ fetchPc' = "raised"
                            /\ UNCHANGED <<all_products, task>>
                       ELSE /\ all_products' = all_products \o res.products
                            /\ IF _get_last_page(soup) > 1
                               THEN /\ fetchPc' = "gathering"
                                    /\ task' = [p \in TaskPages |->
                                          IF p <= _get_last_page(soup)
                                          THEN "waiting" ELSE "none"]
                               ELSE /\ fetchPc' = "returned"
                                    /\ UNCHANGED task
    /\ UNCHANGED <<sem, errLog>>
    /\ UNCHANGED <<mainVars, callVars>>

\* AcquireAndRequest without the gate of the semaphore
AcquireWithoutGate(p) ==
    /\ task[p] = "waiting"
    /\ sem' = sem - 1
    /\ task' = [task EXCEPT ![p] = "inflight"]
    /\ requests' = [requests EXCEPT ![p] = @ + 1]
    /\ UNCHANGED <<fetchPc, last_page, all_products, errLog>>
    /\ UNCHANGED <<mainVars, callVars>>

\* async with sem: the permit is taken, then requests.get runs in the executor
AcquireAndRequest(p) ==
    /\ task[p] = "waiting"
    /\ sem > 0
    /\ sem' = sem - 1
    /\ task' = [task EXCEPT ![p] = "inflight"]
    /\ requests' = [requests EXCEPT ![p] = @ + 1]
    /\ UNCHANGED <<fetchPc, last_page, all_products, errLog>>
    /\ UNCHANGED <<mainVars, callVars>>

\* the request ends; try/except of _fetch_page; the permit goes back on exit
CompletePage(p) ==
    /\ task[p] = "inflight"
    /\ \E resp \in Responses :
        /\ task' = [task EXCEPT ![p] = FetchPageOutcome(p, resp)]
        /\ errLog' = IF resp = "neterr" THEN errLog \cup {p} ELSE errLog
    /\ sem' = sem + 1
    /\ UNCHANGED <<fetchPc, last_page, all_products, requests>>
    /\ UNCHANGED <<mainVars, callVars>>

\* gather raises the first exception of a task to the awaiter at once and
\* leaves the other tasks running
GatherRaise ==
    /\ fetchPc = "gathering"
    /\ \E p \in TaskPages : task[p] = "exc"
    /\ fetchPc' = "raised"
    /\ UNCHANGED <<last_page, all_products, sem, task, requests, errLog>>
    /\ UNCHANGED <<mainVars, callVars>>

\* gather returns once every task returned; the results are appended in
\* page order
GatherReturn ==
    /\ fetchPc = "gathering"
    /\ \A p \in 2..last_page : Returned(task[p])
    /\ all_products' = all_products \o GatherResults(task, 2, last_page)
    /\ fetchPc' = "returned"
    /\ UNCHANGED <<last_page, sem, task, requests, errLog>>
    /\ UNCHANGED <<mainVars, callVars>>

\* after fetch_new_arrivals raised, main returns and asyncio.run cancels the
\* tasks still pending: a waiter never gets the permit, a holder gives it back
CancelTask(p) ==
    /\ fetchPc = "raised"
    /\ task[p] \in {"waiting", "inflight"}
    /\ task' = [task EXCEPT ![p] = "cancelled"]
    /\ sem' = IF task[p] = "inflight" THEN sem + 1 ELSE sem
    /\ UNCHANGED <<fetchPc, last_page, all_products, requests, errLog>>
    /\ UNCHANGED <<mainVars, callVars>>

NextFetch ==
    \/ FetchFirstPage
    \/ \E p \in TaskPages : AcquireAndRequest(p)
    \/ \E p \in TaskPages : CompletePage(p)
    \/ GatherRaise
    \/ GatherReturn
    \/ \E p \in TaskPages : CancelTask(p)

(***************************************************************************)
(* Files, dictionaries and feeds.                                          *)
(***************************************************************************)
\* the product titles of the first two listing pages
Titles == {11, 21, 22}

EmptyMap == [t \in {} |-> 0]

\* d[k] = v of a Python dict
Put(d, k, v) == [x \in (DOMAIN d) \cup {k} |-> IF x = k THEN v ELSE d[x]]

NoFile == [state |-> "absent", data |-> EmptyMap]
CorruptJson == [state |-> "corrupt", data |-> EmptyMap]
JsonOf(d) == [state |-> "ok", data |-> d]

NoFeed == [state |-> "absent", lastBuildDate |-> 0, items |-> <<>>]
NoRss == [lastBuildDate |-> 0, items |-> <<>>]

\* the file after file.write(rss_content): RSS_TEMPLATE filled in
FeedOf(rss) == [state |-> "ok", lastBuildDate |-> rss.lastBuildDate, items |-> rss.items]

\* RssItems with pubDate=NOW for every item
RECURSIVE RssItemsAlwaysNow(_, _, _, _)
RssItemsAlwaysNow(prods, exist, NOW, i) ==
    IF i > Len(prods) THEN <<>>
    ELSE <<[title |-> prods[i].title, link |-> prods[i].link, pubDate |-> NOW]>>
         \o RssItemsAlwaysNow(prods, exist, NOW, i + 1)

\* the loop of generate_rss over products[i..]: one ITEM_TEMPLATE per product
RECURSIVE RssItems(_, _, _, _)
RssItems(prods, exist, NOW, i) ==
    IF i > Len(prods) THEN <<>>
    ELSE <<[title   |-> prods[i].title,
            link    |-> prods[i].link,
            pubDate |-> IF prods[i].title \in DOMAIN exist
                        THEN exist[prods[i].title] ELSE NOW]>>
         \o RssItems(prods, exist, NOW, i + 1)

\* generate_rss(products, exist_products), NOW being the module constant
generate_rss(prods, exist, NOW) ==
    [lastBuildDate |-> NOW, items |-> RssItems(prods, exist, NOW, 1)]

\* the dict comprehension of get_exist_titles: a later item of the same
\* title replaces the earlier one; the link and lastBuildDate are not read
RECURSIVE ItemsToDict(_, _, _)
ItemsToDict(items, i, acc) ==
    IF i > Len(items) THEN acc
    ELSE ItemsToDict(items, i + 1, Put(acc, items[i].title, items[i].pubDate))

\* get_exist_titles(xml_path); xmlReadOk: open and the item parse do not raise
get_exist_titles(xml, xmlReadOk) ==
    IF xml.state = "absent" THEN [exc |-> FALSE, value |-> EmptyMap]
    ELSE IF ~xmlReadOk THEN [exc |-> TRUE, value |-> EmptyMap]
    ELSE [exc |-> FALSE, value |-> ItemsToDict(xml.items, 1, EmptyMap)]

\* load_history that reads the feed whenever there is one: the JSON history
\* is returned only when no feed exists
load_history_feed_first(json, xml, jsonReadOk, xmlReadOk) ==
    IF json.state = "ok" /\ jsonReadOk /\ xml.state = "absent"
    THEN [exc |-> FALSE, value |-> json.data, xmlConsulted |-> FALSE, warned |-> FALSE]
    ELSE IF xml.state # "absent"
    THEN [exc          |-> get_exist_titles(xml, xmlReadOk).exc,
          value        |-> get_exist_titles(xml, xmlReadOk).value,
          xmlConsulted |-> TRUE,
          warned       |-> json.state # "absent"]
    ELSE [exc |-> FALSE, value |-> EmptyMap, xmlConsulted |-> FALSE,
          warned |-> json.state # "absent"]

\* load_history(history_path, xml_path); jsonReadOk: open and json.load of an
\* intact file do not raise (a corrupt file always makes json.load raise)
load_history(json, xml, jsonReadOk, xmlReadOk) ==
    IF json.state # "absent" /\ json.state = "ok" /\ jsonReadOk
    THEN [exc |-> FALSE, value |-> json.data, xmlConsulted |-> FALSE, warned |-> FALSE]
    ELSE IF xml.state # "absent"
    THEN [exc          |-> get_exist_titles(xml, xmlReadOk).exc,
          value        |-> get_exist_titles(xml, xmlReadOk).value,
          xmlConsulted |-> TRUE,
          warned       |-> json.state # "absent"]
    ELSE [exc |-> FALSE, value |-> EmptyMap, xmlConsulted |-> FALSE,
          warned |-> json.state # "absent"]

\* DiffLoop that compares with the history as loaded and records the new
\* titles only after the loop
RECURSIVE DiffLoopLate(_, _, _, _, _)
DiffLoopLate(prods, i, exist, new, NOW) ==
    IF i > Len(prods)
    THEN [exist_titles |-> [t \in (DOMAIN exist) \cup {new[j].title : j \in 1..Len(new)} |->
                               IF t \in DOMAIN exist THEN exist[t] ELSE NOW],
          new_products |-> new]
    ELSE IF prods[i].title \notin DOMAIN exist
    THEN DiffLoopLate(prods, i + 1, exist, Append(new, prods[i]), NOW)
    ELSE DiffLoopLate(prods, i + 1, exist, new, NOW)

\* the loop of main over products[i..] that picks the new products
RECURSIVE DiffLoop(_, _, _, _, _)
DiffLoop(prods, i, exist, new, NOW) ==
    IF i > Len(prods) THEN [exist_titles |-> exist, new_products |-> new]
    ELSE IF prods[i].title \notin DOMAIN exist
    THEN DiffLoop(prods, i + 1, Put(exist, prods[i].title, NOW), Append(new, prods[i]), NOW)
    ELSE DiffLoop(prods, i + 1, exist, new, NOW)

(***************************************************************************)
(* main, one step per statement that reads or writes a file.               *)
(***************************************************************************)
Product(t) == [title |-> t, link |-> t]

RECURSIVE ListsUpTo(_, _)
ListsUpTo(S, n) ==
    IF n = 0 THEN {<<>>}
    ELSE ListsUpTo(S, n - 1) \cup
         {Append(l, x) : l \in {m \in ListsUpTo(S, n - 1) : Len(m) = n - 1}, x \in S}

\* the lists fetch_new_arrivals may return to main
ScrapedLists == ListsUpTo({Product(t) : t \in Titles}, MaxScraped)

\* the feed left by the version that kept no JSON history
LegacyFeed == [state |-> "ok", lastBuildDate |-> 0,
               items |-> <<[title |-> 11, link |-> 11, pubDate |-> 0]>>]

InitMainVars ==
    /\ mainPc = "start"
    /\ now = 1
    /\ jsonFile = NoFile
    /\ xmlFile \in {NoFeed, LegacyFeed}
    /\ products = <<>>
    /\ exist_titles = EmptyMap
    /\ new_products = <<>>
    /\ rss_content = NoRss
    /\ mainOutcome = "none"
    /\ logged = FALSE
    /\ raisedAt = "none"
    /\ loaded = EmptyMap
    /\ jsonAtStart = jsonFile
    /\ xmlAtStart = xmlFile
    /\ feedWritten = FALSE
    /\ announced = [t \in Titles |-> 0]
    /\ ioFailed = FALSE

\* MainExcept with "except OSError": only the failure of the feed write is caught
MainExceptOSError(step) ==
    /\ mainPc' = "done"
    /\ mainOutcome' = IF step = "write" THEN "returned" ELSE "propagated"
    /\ logged' = (step = "write")
    /\ raisedAt' = step

\* except Exception: logger.exception(...); main returns normally
MainExcept(step) ==
    /\ mainPc' = "done"
    /\ mainOutcome' = "returned"
    /\ logged' = TRUE
    /\ raisedAt' = step

\* products = await fetch_new_arrivals()
MainFetch ==
    /\ mainPc = "start"
    /\ \/ /\ MainExcept("fetch")
          /\ UNCHANGED products
       \/ /\ \E l \in ScrapedLists : products' = l
          /\ mainPc' = "load"
          /\ UNCHANGED <<mainOutcome, logged, raisedAt>>
    /\ UNCHANGED <<now, jsonFile, xmlFile, exist_titles, new_products, rss_content,
                   loaded, jsonAtStart, xmlAtStart, feedWritten, announced, ioFailed>>
    /\ UNCHANGED <<fetchVars, callVars>>

\* exist_titles = load_history(history_path, output)
MainLoad ==
    /\ mainPc = "load"
    /\ \E jsonReadOk \in BOOLEAN, xmlReadOk \in BOOLEAN :
        LET r == load_history(jsonFile, xmlFile, jsonReadOk, xmlReadOk)
        IN  /\ ioFailed' = (ioFailed \/ r.warned \/ r.exc)
            /\ IF r.exc
               THEN /\ MainExcept("load")
                    /\ UNCHANGED <<exist_titles, loaded>>
               ELSE /\ exist_titles' = r.value
                    /\ loaded' = r.value
                    /\ mainPc' = "diff"
                    /\ UNCHANGED <<mainOutcome, logged, raisedAt>>
    /\ UNCHANGED <<now, jsonFile, xmlFile, products, new_products, rss_content,
                   jsonAtStart, xmlAtStart, feedWritten, announced>>
    /\ UNCHANGED <<fetchVars, callVars>>

\* the diff loop and rss_content = generate_rss(new_products, exist_titles)
MainDiffRender ==
    /\ mainPc = "diff"
    /\ LET d == DiffLoop(products, 1, exist_titles, <<>>, now)
       IN  /\ exist_titles' = d.exist_titles
           /\ new_products' = d.new_products
           /\ rss_content' = generate_rss(d.new_products, d.exist_titles, now)
    /\ mainPc' = "write"
    /\ UNCHANGED <<now, jsonFile, xmlFile, products, mainOutcome, logged, raisedAt,
                   loaded, jsonAtStart, xmlAtStart, feedWritten, announced, ioFailed>>
    /\ UNCHANGED <<fetchVars, callVars>>

Count(items, t) == Cardinality({i \in 1..Len(items) : items[i].title = t})

\* MainWriteFeed with the failure of the write swallowed: the run goes on to
\* save the history
MainWriteFeedSwallow ==
    /\ mainPc = "write"
    /\ \/ /\ xmlFile' = FeedOf(rss_content)
          /\ feedWritten' = TRUE
          /\ announced' = [t \in Titles |-> announced[t] + Count(rss_content.items, t)]
          /\ UNCHANGED ioFailed
       \/ /\ UNCHANGED <<xmlFile, feedWritten, announced>>
          /\ ioFailed' = TRUE
    /\ mainPc' = "save"
    /\ UNCHANGED <<mainOutcome, logged, raisedAt>>
    /\ UNCHANGED <<now, jsonFile, products, exist_titles, new_products, rss_content,
                   loaded, jsonAtStart, xmlAtStart>>
    /\ UNCHANGED <<fetchVars, callVars>>

\* with open(output, "w") as file: file.write(rss_content).  open may raise
\* (the file is left as it was); write may raise after open truncated the
\* file (a prefix of the items is left)
MainWriteFeed ==
    /\ mainPc = "write"
    /\ \/ /\ xmlFile' = FeedOf(rss_content)
          /\ feedWritten' = TRUE
          /\ announced' = [t \in Titles |-> announced[t] + Count(rss_content.items, t)]
          /\ mainPc' = "save"
          /\ UNCHANGED <<mainOutcome, logged, raisedAt, ioFailed>>
       \/ /\ \/ UNCHANGED xmlFile
             \/ \E k \in 0..Len(rss_content.items) :
                   xmlFile' = FeedOf([rss_content EXCEPT !.items = SubSeq(@, 1, k)])
          /\ ioFailed' = TRUE
          /\ MainExcept("write")
          /\ UNCHANGED <<feedWritten, announced>>
    /\ UNCHANGED <<now, jsonFile, products, exist_titles, new_products, rss_content,
                   loaded, jsonAtStart, xmlAtStart>>
    /\ UNCHANGED <<fetchVars, callVars>>

\* save_history(history_path, exist_titles): its own try/except logs and
\* swallows; a failed json.dump leaves the truncated file
save_history(json, data, outcome) ==
    IF outcome = "ok" THEN JsonOf(data)
    ELSE IF outcome = "openfail" THEN json
    ELSE CorruptJson

MainSaveHistory ==
    /\ mainPc = "save"
    /\ \E outcome \in {"ok", "openfail", "dumpfail"} :
        /\ jsonFile' = save_history(jsonFile, exist_titles, outcome)
        /\ ioFailed' = (ioFailed \/ outcome # "ok")
        /\ logged' = (logged \/ outcome # "ok")
        /\ raisedAt' = IF outcome # "ok" THEN "save" ELSE raisedAt
    /\ mainPc' = "done"
    /\ mainOutcome' = "returned"
    /\ UNCHANGED <<now, xmlFile, products, exist_titles, new_products, rss_content,
                   loaded, jsonAtStart, xmlAtStart, feedWritten, announced>>
    /\ UNCHANGED <<fetchVars, callVars>>

\* the command is run again (a new process, a later NOW)
NextRun ==
    /\ mainPc = "done"
    /\ now < MaxRuns
    /\ now' = now + 1
    /\ mainPc' = "start"
    /\ products' = <<>>
    /\ exist_titles' = EmptyMap
    /\ new_products' = <<>>
    /\ rss_content' = NoRss
    /\ mainOutcome' = "none"
    /\ logged' = FALSE
    /\ raisedAt' = "none"
    /\ loaded' = EmptyMap
    /\ jsonAtStart' = jsonFile
    /\ xmlAtStart' = xmlFile
    /\ feedWritten' = FALSE
    /\ UNCHANGED <<jsonFile, xmlFile, announced, ioFailed>>
    /\ UNCHANGED <<fetchVars, callVars>>

NextMain ==
    \/ MainFetch
    \/ MainLoad
    \/ MainDiffRender
    \/ MainWriteFeed
    \/ MainSaveHistory
    \/ NextRun

(***************************************************************************)
(* Calls of generate_rss and of load_history on arbitrary arguments.       *)
(***************************************************************************)
Dates == 0..MaxItems

\* the dicts title -> date
Dicts == UNION {[S -> Dates] : S \in SUBSET Titles}

FeedItems == {[title |-> t, link |-> t, pubDate |-> d] : t \in Titles, d \in Dates}

RssArgs ==
    {[products |-> l, exist |-> d, NOW |-> MaxItems + 1] :
        l \in ListsUpTo({[title |-> t, link |-> k] : t \in Titles, k \in {1, 2}}, MaxItems),
        d \in {e \in Dicts : Cardinality(DOMAIN e) <= MaxItems}}

JsonFiles == {NoFile, CorruptJson} \cup
             {JsonOf(d) : d \in {e \in Dicts : Cardinality(DOMAIN e) <= 1}}

XmlFiles == {NoFeed} \cup
            {[state |-> "ok", lastBuildDate |-> 0, items |-> l] :
                l \in ListsUpTo({i \in FeedItems : i.title # 22}, MaxItems)}

LoadArgs ==
    {[json |-> j, xml |-> x, jsonReadOk |-> a, xmlReadOk |-> b] :
        j \in JsonFiles, x \in XmlFiles, a \in BOOLEAN, b \in BOOLEAN}

CallGenerateRss ==
    /\ callOut = <<>>
    /\ callOut' = <<generate_rss(callIn.products, callIn.exist, callIn.NOW)>>
    /\ UNCHANGED <<callIn, fetchVars, mainVars>>

CallLoadHistory ==
    /\ callOut = <<>>
    /\ callOut' = <<load_history(callIn.json, callIn.xml,
                                  callIn.jsonReadOk, callIn.xmlReadOk)>>
    /\ UNCHANGED <<callIn, fetchVars, mainVars>>

(***************************************************************************)
(* The specifications.                                                     *)
(***************************************************************************)
\* the parts of the state a specification does not use
OffFetch ==
    /\ fetchPc = "off"
    /\ last_page = 0
    /\ all_products = <<>>
    /\ sem = SemPermits
    /\ task = [p \in TaskPages |-> "none"]
    /\ requests = [p \in Pages |-> 0]
    /\ errLog = {}

OffMain ==
    /\ mainPc = "off"
    /\ now = 0
    /\ jsonFile = NoFile
    /\ xmlFile = NoFeed
    /\ products = <<>>
    /\ exist_titles = EmptyMap
    /\ new_products = <<>>
    /\ rss_content = NoRss
    /\ mainOutcome = "none"
    /\ logged = FALSE
    /\ raisedAt = "none"
    /\ loaded = EmptyMap
    /\ jsonAtStart = NoFile
    /\ xmlAtStart = NoFeed
    /\ feedWritten = FALSE
    /\ announced = [t \in Titles |-> 0]
    /\ ioFailed = FALSE

OffCall ==
    /\ callIn = "none"
    /\ callOut = <<>>

\* the runs of the command
Init == InitMainVars /\ OffFetch /\ OffCall
Spec == Init /\ [][NextMain]_vars

\* one call of fetch_new_arrivals
InitFetch == InitFetchVars /\ OffMain /\ OffCall
SpecFetch == InitFetch /\ [][NextFetch]_vars

\* one call of generate_rss
InitRss == callIn \in RssArgs /\ callOut = <<>> /\ OffFetch /\ OffMain
SpecRss == InitRss /\ [][CallGenerateRss]_vars

\* one call of load_history
InitLoad == callIn \in LoadArgs /\ callOut = <<>> /\ OffFetch /\ OffMain
SpecLoad == InitLoad /\ [][CallLoadHistory]_vars

InFlight == {p \in TaskPages : task[p] = "inflight"}

(***************************************************************************)
(* Properties of fetch_new_arrivals (SpecFetch).                           *)
(***************************************************************************)
\* the products of page p as the site lists them
ExpectedPage(p) ==
    IF p % 3 = 1 THEN <<[title |-> 10 * p + 1, link |-> 10 * p + 1]>>
    ELSE IF p % 3 = 2 THEN <<[title |-> 10 * p + 1, link |-> 10 * p + 1],
                             [title |-> 10 * p + 2, link |-> 10 * p + 2]>>
    ELSE <<>>

\* the products of the pages lo..hi in ascending page order, a page outside
\* the set ok counting for nothing
RECURSIVE ExpectedPages(_, _, _)
ExpectedPages(lo, hi, ok) ==
    IF lo > hi THEN <<>>
    ELSE (IF lo \in ok THEN ExpectedPage(lo) ELSE <<>>) \o ExpectedPages(lo + 1, hi, ok)

CreatedTasks == {p \in TaskPages : task[p] # "none"}

\* C1: at any moment at most 5 fetches of the pages 2..last_page hold the
\* semaphore, whatever last_page is and however the fetches start, end or fail.
C1_AtMostFiveInFlight ==
    Cardinality(InFlight) <= 5

\* five fetches hold the semaphore and a sixth page waits for a permit
C1_Witness ==
    /\ Cardinality(InFlight) = 5
    /\ \E p \in TaskPages : task[p] = "waiting"

C4_EveryPageErrorSkipped ==
    /\ fetchPc # "raised"
    /\ fetchPc = "returned" =>
          all_products = ExpectedPages(1, last_page,
                             {1} \cup {p \in TaskPages : task[p] = "good"})

\* C9 as stated, its final result: when fetch_new_arrivals has finished,
\* every page fetch it created has acquired the semaphore (made its request)
\* and ended, and all 5 permits are free.
C9_FinishedWithPermitsFree ==
    fetchPc \in {"returned", "raised"} =>
        /\ sem = 5
        /\ \A p \in CreatedTasks : requests[p] = 1 /\ Finished(task[p]) /\ task[p] # "cancelled"

(***************************************************************************)
(* Properties of the runs of main (Spec).                                  *)
(***************************************************************************)
ItemTitles(items) == {items[i].title : i \in 1..Len(items)}

\* C2: over runs in which no read or write of the two files fails, a title
\* is emitted as an RSS item at most once in total; the feed of a run holds
\* no title of the loaded history and no title twice.
C2_AnnouncedAtMostOnce ==
    /\ ~ioFailed => \A t \in Titles : announced[t] <= 1
    /\ ItemTitles(rss_content.items) \cap DOMAIN loaded = {}
    /\ \A i, j \in 1..Len(rss_content.items) :
          rss_content.items[i].title = rss_content.items[j].title => i = j

\* the second run scraped a title of the history and a new one: only the new
\* one is in its feed
C2_Witness ==
    /\ ~ioFailed
    /\ now = 2
    /\ mainPc = "done"
    /\ feedWritten
    /\ products = <<Product(21), Product(22)>>
    /\ 21 \in DOMAIN loaded
    /\ announced[21] = 1
    /\ ItemTitles(xmlFile.items) = {22}

\* C3 as stated: a history file that held entries when the run started holds
\* every one of them, with the same timestamp, whatever the run did to it.
C3_HistoryAppendOnly ==
    \A t \in DOMAIN jsonAtStart.data :
        /\ jsonFile.state = "ok"
        /\ t \in DOMAIN jsonFile.data
        /\ jsonFile.data[t] = jsonAtStart.data[t]

\* C5: main never propagates a failure: whichever step raised, the error was
\* logged and the command returned as a successful run does.
C5_MainNeverPropagates ==
    /\ mainOutcome # "propagated"
    /\ mainPc = "done" => mainOutcome = "returned"
    /\ raisedAt # "none" => logged /\ mainPc = "done" /\ mainOutcome = "returned"

\* a run whose history load raised has ended normally
C5_Witness ==
    /\ raisedAt = "load"
    /\ mainPc = "done"
    /\ mainOutcome = "returned"
    /\ logged

\* C10: a run that raised in fetch_new_arrivals or load_history left both
\* files as they were; the history file is untouched until the feed write has
\* succeeded, and when it has changed the feed file holds the feed of the run.
C10_FeedBeforeHistory ==
    /\ raisedAt \in {"fetch", "load"} => jsonFile = jsonAtStart /\ xmlFile = xmlAtStart
    /\ mainPc \in {"start", "load", "diff", "write"} => jsonFile = jsonAtStart
    /\ jsonFile # jsonAtStart =>
          /\ feedWritten
          /\ xmlFile = FeedOf(rss_content)
          /\ \A t \in (DOMAIN jsonFile.data) \ (DOMAIN loaded) :
                t \in ItemTitles(xmlFile.items)
    /\ raisedAt = "write" => jsonFile = jsonAtStart

\* the feed write of a later run failed: the history file is the one the
\* earlier run left although the run had new titles
C10_Witness ==
    /\ raisedAt = "write"
    /\ mainPc = "done"
    /\ jsonAtStart.state = "ok"
    /\ Len(new_products) > 0
    /\ jsonFile = jsonAtStart

(***************************************************************************)
(* Properties of generate_rss (SpecRss) and of load_history (SpecLoad).    *)
(***************************************************************************)
\* C6: generate_rss emits one item per product, in order, with the
\* product's title and link; the pubDate is exist_products[title] for a
\* title of exist_products and NOW for any other.
C6_OneItemPerProduct ==
    callOut # <<>> =>
        LET out == callOut[1].items
        IN  /\ Len(out) = Len(callIn.products)
            /\ \A i \in 1..Len(callIn.products) :
                  /\ out[i].title = callIn.products[i].title
                  /\ out[i].link = callIn.products[i].link
                  /\ out[i].pubDate = IF callIn.products[i].title \in DOMAIN callIn.exist
                                      THEN callIn.exist[callIn.products[i].title]
                                      ELSE callIn.NOW

\* a call with a known title (dated before NOW) and an unknown one
C6_Witness ==
    /\ callOut # <<>>
    /\ Len(callIn.products) = 2
    /\ callIn.products[1].title \in DOMAIN callIn.exist
    /\ callIn.exist[callIn.products[1].title] # callIn.NOW
    /\ callIn.products[2].title \notin DOMAIN callIn.exist
    /\ callOut[1].items[2].pubDate = callIn.NOW

\* the title -> pubDate mapping of a feed: the pubDate of the last item of
\* each title
FeedMapping(xml) ==
    [t \in ItemTitles(xml.items) |->
        xml.items[SetMax({i \in 1..Len(xml.items) : xml.items[i].title = t})].pubDate]

JsonLoads == callIn.json.state = "ok" /\ callIn.jsonReadOk

\* C7 as stated: the JSON content when the JSON file exists and can be read;
\* the mapping of the XML feed when it does not and the XML file exists; the
\* empty mapping when neither is available; the XML is not consulted when
\* the JSON loads.
C7_AsStated ==
    callOut # <<>> =>
        LET r == callOut[1]
        IN  /\ JsonLoads => ~r.exc /\ r.value = callIn.json.data /\ ~r.xmlConsulted
            /\ (~JsonLoads /\ callIn.xml.state = "ok")
                  => ~r.exc /\ r.value = FeedMapping(callIn.xml)
            /\ (~JsonLoads /\ callIn.xml.state = "absent")
                  => ~r.exc /\ r.value = EmptyMap

\* C7 amended: as stated, but the mapping of the XML feed is returned only
\* when the XML file can be read; when reading it raises, load_history
\* raises.
C7_LoadHistoryFallback ==
    callOut # <<>> =>
        LET r == callOut[1]
        IN  /\ JsonLoads => ~r.exc /\ r.value = callIn.json.data /\ ~r.xmlConsulted
            /\ (~JsonLoads /\ callIn.xml.state = "ok" /\ callIn.xmlReadOk)
                  => ~r.exc /\ r.value = FeedMapping(callIn.xml)
            /\ (~JsonLoads /\ callIn.xml.state = "ok" /\ ~callIn.xmlReadOk) => r.exc
            /\ (~JsonLoads /\ callIn.xml.state = "absent")
                  => ~r.exc /\ r.value = EmptyMap

\* the JSON file exists but cannot be read and the feed, which has two items
\* of one title, is returned in its place
C7_Witness ==
    /\ callOut # <<>>
    /\ callIn.json.state = "ok"
    /\ callIn.json.data # EmptyMap
    /\ ~callIn.jsonReadOk
    /\ Len(callIn.xml.items) = 2
    /\ Cardinality(ItemTitles(callIn.xml.items)) = 1
    /\ callIn.xml.items[1].pubDate # callIn.xml.items[2].pubDate
    /\ ~callOut[1].exc
    /\ callOut[1].value = FeedMapping(callIn.xml)
    /\ callOut[1].value # callIn.json.data

====
